---- MODULE Spec2Model ----
(***************************************************************************)
(* Review & reaction engine of server/index.js over the MySQL schema of    *)
(* README.md.  Every express handler is a sequence of awaited store        *)
(* statements; each statement is one atomic step, and requests interleave  *)
(* between statements.                                                     *)
(***************************************************************************)
EXTENDS Integers, FiniteSets, Sequences, TLC

\* AUTO_INCREMENT of reviews.id is capped: at most MaxReviews reviews are ever created.
MaxReviews == 1

\* Requests that may be in flight at the same time.
Clients == {"c1", "c2"}

\* users table as seeded by README.md: user 1 is the admin, 2 and 3 are plain users.
Users == {1, 2, 3}

AdminId == 1

Role(u) == IF u = AdminId THEN "admin" ELSE "user"

ReviewIds == 1..MaxReviews

ReactionTypes == {"like", "dislike"}

VARIABLES
  reviews,       \* reviews table: id -> row
  reactions,     \* review_reactions table: row -> number of copies
  nextReviewId,  \* AUTO_INCREMENT counter of reviews.id
  req,           \* per client: the request being handled, or its response
  lastReact,     \* history: (review, user) pairs -> type of the latest stored reaction
  users,         \* users table: id -> row
  nextUserId,    \* AUTO_INCREMENT counter of users.id
  now            \* CURRENT_TIMESTAMP of the database server, in seconds

vars == <<reviews, reactions, nextReviewId, req, lastReact, users, nextUserId, now>>

\* A request slot.  pc = "done" means no request is in flight and the fields hold the
\* last response (status 0: no request yet).
NoRequest ==
  [op |-> "none", pc |-> "done", user |-> 0, reviewId |-> 0, arg |-> "-",
   rating |-> 0, comment |-> "-",
   found |-> FALSE, likes |-> 0, dislikes |-> 0, status |-> 0, error |-> "-",
   page |-> 0, limit |-> 0, total |-> 0, totalPages |-> 0, items |-> << >>]

\* INSERT INTO users: the default admin and the two sample users
SeedUsers ==
  [i \in Users |->
     [email |-> IF i = AdminId THEN "shaibinkb16@gmail.com"
                ELSE IF i = 2 THEN "john@example.com" ELSE "jane@example.com",
      role |-> Role(i)]]

\* The store after the schema of README.md is created: the admin and the two sample
\* users exist, there is no review and no reaction; no request has been received.
Init ==
  /\ reviews = << >>
  /\ reactions = << >>
  /\ nextReviewId = 1
  /\ req = [c \in Clients |-> NoRequest]
  /\ lastReact = {}
  /\ users = SeedUsers
  /\ nextUserId = Cardinality(Users) + 1
  /\ now = 0

----------------------------------------------------------------------------
\* Store statements

ReviewExists(r) == r \in DOMAIN reviews

\* review_reactions is a multiset of rows (each row has its own AUTO_INCREMENT id, so two
\* rows may agree on every modelled column): row -> number of copies.
RECURSIVE Copies(_, _)
Copies(bag, rows) ==
  IF rows = {} THEN 0
  ELSE LET x == CHOOSE y \in rows : TRUE
       IN bag[x] + Copies(bag, rows \ {x})

ReactionRows(r, u) == {x \in DOMAIN reactions : x.review_id = r /\ x.user_id = u}

ReactionsOf(r) == {x \in DOMAIN reactions : x.review_id = r}

\* SELECT COUNT(*) FROM review_reactions WHERE review_id = r AND reaction_type = t
CountReactions(r, t) ==
  Copies(reactions, {x \in DOMAIN reactions : x.review_id = r /\ x.reaction_type = t})

\* UNIQUE KEY unique_reaction (review_id, user_id)
UniqueReactionOk(r, u) == ReactionRows(r, u) = {}

\* Mutant of ForeignKeyOk: the table is created without the foreign key.
NoForeignKey(r) == TRUE

\* FOREIGN KEY (review_id) REFERENCES reviews(id)
ForeignKeyOk(r) == ReviewExists(r)

\* Mutant of UpdateReaction: the WHERE clause lacks "AND user_id = ?".
UpdateReactionOfAnyUser(r, u, t) ==
  LET Upd(x) == IF x.review_id = r THEN [x EXCEPT !.reaction_type = t] ELSE x
  IN [y \in {Upd(x) : x \in DOMAIN reactions} |->
        Copies(reactions, {x \in DOMAIN reactions : Upd(x) = y})]

\* An UPDATE whose WHERE clause lacks "review_id = ? AND"
UpdateReactionOnAnyReview(r, u, t) ==
  LET Upd(x) == IF x.user_id = u THEN [x EXCEPT !.reaction_type = t] ELSE x
  IN [y \in {Upd(x) : x \in DOMAIN reactions} |->
        Copies(reactions, {x \in DOMAIN reactions : Upd(x) = y})]

\* UPDATE review_reactions SET reaction_type = t WHERE review_id = r AND user_id = u
UpdateReaction(r, u, t) ==
  LET Upd(x) == IF x.review_id = r /\ x.user_id = u
                  THEN [x EXCEPT !.reaction_type = t] ELSE x
  IN [y \in {Upd(x) : x \in DOMAIN reactions} |->
        Copies(reactions, {x \in DOMAIN reactions : Upd(x) = y})]

\* INSERT INTO review_reactions (review_id, user_id, reaction_type) VALUES (r, u, t)
InsertReaction(r, u, t) ==
  LET row == [review_id |-> r, user_id |-> u, reaction_type |-> t]
  IN [y \in DOMAIN reactions \cup {row} |->
        IF y \in DOMAIN reactions
          THEN reactions[y] + (IF y = row THEN 1 ELSE 0)
          ELSE 1]

\* DELETE FROM review_reactions WHERE review_id = r
DeleteReactionsOf(r) == [y \in DOMAIN reactions \ ReactionsOf(r) |-> reactions[y]]

\* DELETE FROM reviews WHERE id = r
DeleteReviewRow(r) == [i \in DOMAIN reviews \ {r} |-> reviews[i]]

\* Mutant of CanDelete: "||" for "&&" in the 403 condition.
CanDeleteAdminAndAuthor(u, r) == Role(u) = "admin" /\ reviews[r].user_id = u

\* req.user.role !== 'admin' && reviews[0].user_id !== req.user.id  =>  403
CanDelete(u, r) == Role(u) = "admin" \/ reviews[r].user_id = u

Idle(c) == req[c].pc = "done"

\* The response of a finished request: the handler's locals are gone.
Response(op, code, err, likes, dislikes) ==
  [NoRequest EXCEPT !.op = op, !.status = code, !.error = err,
                    !.likes = likes, !.dislikes = dislikes]

At(c, op, pc) == req[c].op = op /\ req[c].pc = pc

StoreUnchanged ==
  UNCHANGED <<reviews, reactions, nextReviewId, lastReact, users, nextUserId, now>>

----------------------------------------------------------------------------
\* POST /api/reviews/:id/reactions

\* Mutant of ReactStart: the review-exists check is missing.
ReactStartWithoutLookup(c, u, r, t) ==
  /\ Idle(c)
  /\ LET q == [NoRequest EXCEPT !.op = "react", !.user = u, !.reviewId = r, !.arg = t]
     IN req' = [req EXCEPT ![c] =
                  IF t \notin ReactionTypes THEN Response("react", 400, "-", 0, 0)
                  ELSE [q EXCEPT !.pc = "sel_reaction"]]
  /\ StoreUnchanged

\* validation of reactionType, then SELECT id FROM reviews WHERE id = ?
ReactStart(c, u, r, t) ==
  /\ Idle(c)
  /\ LET q == [NoRequest EXCEPT !.op = "react", !.user = u, !.reviewId = r, !.arg = t]
     IN req' = [req EXCEPT ![c] =
                  IF t \notin ReactionTypes THEN Response("react", 400, "-", 0, 0)
                  ELSE IF ~ReviewExists(r) THEN Response("react", 404, "-", 0, 0)
                  ELSE [q EXCEPT !.pc = "sel_reaction"]]
  /\ StoreUnchanged

\* SELECT * FROM review_reactions WHERE review_id = ? AND user_id = ?
ReactSelect(c) ==
  /\ At(c, "react", "sel_reaction")
  /\ req' = [req EXCEPT ![c].pc = "write",
                        ![c].found = ReactionRows(req[c].reviewId, req[c].user) # {}]
  /\ StoreUnchanged

RecordReact(r, u, t) ==
  {x \in lastReact : ~(x.review_id = r /\ x.user_id = u)}
    \cup {[review_id |-> r, user_id |-> u, reaction_type |-> t]}

\* existingReactions.length > 0 ? UPDATE : INSERT
ReactWrite(c) ==
  /\ At(c, "react", "write")
  /\ LET r == req[c].reviewId
         u == req[c].user
         t == req[c].arg
     IN IF req[c].found
          THEN /\ reactions' = UpdateReaction(r, u, t)
               /\ lastReact' = RecordReact(r, u, t)
               /\ req' = [req EXCEPT ![c].pc = "count_likes"]
          ELSE IF ~UniqueReactionOk(r, u)
          THEN /\ req' = [req EXCEPT ![c] = Response("react", 500, "ER_DUP_ENTRY", 0, 0)]
               /\ UNCHANGED <<reactions, lastReact>>
          ELSE IF ~ForeignKeyOk(r)
          THEN /\ req' = [req EXCEPT ![c] =
                                 Response("react", 500, "ER_NO_REFERENCED_ROW", 0, 0)]
               /\ UNCHANGED <<reactions, lastReact>>
          ELSE /\ reactions' = InsertReaction(r, u, t)
               /\ lastReact' = RecordReact(r, u, t)
               /\ req' = [req EXCEPT ![c].pc = "count_likes"]
  /\ UNCHANGED <<reviews, nextReviewId, users, nextUserId, now>>

\* A handler that answers the like count it held before its write, without the query
ReactCountLikesNotRead(c) ==
  /\ At(c, "react", "count_likes")
  /\ req' = [req EXCEPT ![c].pc = "count_dislikes"]
  /\ StoreUnchanged

\* SELECT COUNT(*) ... AND reaction_type = "like"
ReactCountLikes(c) ==
  /\ At(c, "react", "count_likes")
  /\ req' = [req EXCEPT ![c].pc = "count_dislikes",
                        ![c].likes = CountReactions(req[c].reviewId, "like")]
  /\ StoreUnchanged

\* SELECT COUNT(*) ... AND reaction_type = "dislike"; res.json({likes, dislikes})
ReactCountDislikes(c) ==
  /\ At(c, "react", "count_dislikes")
  /\ req' = [req EXCEPT ![c] = Response("react", 200, "-", req[c].likes,
                                         CountReactions(req[c].reviewId, "dislike"))]
  /\ StoreUnchanged

----------------------------------------------------------------------------
\* DELETE /api/reviews/:id

\* Mutant of DeleteStart: a missing review is not answered 404; an admin goes on.
DeleteStartWithoutNotFound(c, u, r) ==
  /\ Idle(c)
  /\ LET q == [NoRequest EXCEPT !.op = "delete", !.user = u, !.reviewId = r]
     IN req' = [req EXCEPT ![c] =
                  IF IF ReviewExists(r) THEN CanDelete(u, r) ELSE Role(u) = "admin"
                    THEN [q EXCEPT !.pc = "del_reactions"]
                    ELSE Response("delete", 403, "-", 0, 0)]
  /\ StoreUnchanged

\* SELECT user_id FROM reviews WHERE id = ?, then the owner-or-admin check
DeleteStart(c, u, r) ==
  /\ Idle(c)
  /\ LET q == [NoRequest EXCEPT !.op = "delete", !.user = u, !.reviewId = r]
     IN req' = [req EXCEPT ![c] =
                  IF ~ReviewExists(r) THEN Response("delete", 404, "-", 0, 0)
                  ELSE IF ~CanDelete(u, r) THEN Response("delete", 403, "-", 0, 0)
                  ELSE [q EXCEPT !.pc = "del_reactions"]]
  /\ StoreUnchanged

\* DELETE FROM review_reactions WHERE review_id = ?
DeleteReactions(c) ==
  /\ At(c, "delete", "del_reactions")
  /\ reactions' = DeleteReactionsOf(req[c].reviewId)
  /\ req' = [req EXCEPT ![c].pc = "del_review"]
  /\ UNCHANGED <<reviews, nextReviewId, lastReact, users, nextUserId, now>>

\* DELETE FROM reviews WHERE id = ? (review_reactions.review_id is ON DELETE CASCADE)
DeleteReview(c) ==
  /\ At(c, "delete", "del_review")
  /\ reviews' = DeleteReviewRow(req[c].reviewId)
  /\ reactions' = DeleteReactionsOf(req[c].reviewId)
  /\ req' = [req EXCEPT ![c] = Response("delete", 200, "-", 0, 0)]
  /\ UNCHANGED <<nextReviewId, lastReact, users, nextUserId, now>>

----------------------------------------------------------------------------
\* POST /api/reviews

\* CHECK (rating >= 1 AND rating <= 5)
RatingCheckOk(rating) == rating >= 1 /\ rating <= 5

\* label = sentiment > 0.7 ? 'positive' : sentiment < 0.3 ? 'negative' : 'neutral'
\* (scores in tenths)
SentimentLabel(score) ==
  IF score > 7 THEN "positive" ELSE IF score < 3 THEN "negative" ELSE "neutral"

InFlightCreates == Cardinality({c \in Clients : req[c].op = "create" /\ req[c].pc = "insert"})

\* the handler is entered and analyzeSentiment(comment) is awaited
CreateStart(c, u, rating, comment) ==
  /\ Idle(c)
  /\ nextReviewId + InFlightCreates <= MaxReviews
  /\ req' = [req EXCEPT ![c] = [NoRequest EXCEPT !.op = "create", !.pc = "insert",
                                  !.user = u, !.rating = rating, !.comment = comment]]
  /\ StoreUnchanged

\* An INSERT that stores the classifier's score with a fixed label
InsertReviewLabelledNeutral(u, rating, comment, score) ==
  [i \in DOMAIN reviews \cup {nextReviewId} |->
     IF i = nextReviewId
       THEN [user_id |-> u, rating |-> rating, comment |-> comment,
             sentiment_score |-> score, sentiment_label |-> "neutral",
             is_flagged |-> FALSE, created_at |-> now]
       ELSE reviews[i]]

\* INSERT INTO reviews (user_id, rating, comment, sentiment_score, sentiment_label)
InsertReview(u, rating, comment, score) ==
  [i \in DOMAIN reviews \cup {nextReviewId} |->
     IF i = nextReviewId
       THEN [user_id |-> u, rating |-> rating, comment |-> comment,
             sentiment_score |-> score, sentiment_label |-> SentimentLabel(score),
             is_flagged |-> FALSE, created_at |-> now]
       ELSE reviews[i]]

\* analyzeSentiment resolves with a random score; the INSERT follows
CreateInsert(c, score) ==
  /\ At(c, "create", "insert")
  /\ IF ~RatingCheckOk(req[c].rating)
       THEN /\ req' = [req EXCEPT ![c] =
                              Response("create", 500, "ER_CHECK_CONSTRAINT_VIOLATED", 0, 0)]
            /\ UNCHANGED <<reviews, nextReviewId>>
       ELSE /\ reviews' = InsertReview(req[c].user, req[c].rating, req[c].comment, score)
            /\ nextReviewId' = nextReviewId + 1
            /\ req' = [req EXCEPT ![c].pc = "select", ![c].reviewId = nextReviewId]
  /\ UNCHANGED <<reactions, lastReact, users, nextUserId, now>>

\* The awaited classifier call rejects (the mock is to be replaced by a call to an
\* external API): the catch block answers 500 and the INSERT is never reached
CreateClassifierRejects(c) ==
  /\ At(c, "create", "insert")
  /\ req' = [req EXCEPT ![c] = Response("create", 500, "Server error", 0, 0)]
  /\ StoreUnchanged

\* SELECT r.*, u.name ... WHERE r.id = insertId; res.status(201).json(reviews[0])
CreateSelect(c) ==
  /\ At(c, "create", "select")
  /\ req' = [req EXCEPT ![c] = Response("create", 201, "-", 0, 0)]
  /\ StoreUnchanged

----------------------------------------------------------------------------
\* PUT /api/admin/reviews/:id/flag

\* An UPDATE that inverts the flag instead of storing the requested value
UpdateFlagToggle(r, b) ==
  [i \in DOMAIN reviews |->
     IF i = r THEN [reviews[i] EXCEPT !.is_flagged = ~@] ELSE reviews[i]]

\* UPDATE reviews SET is_flagged = ? WHERE id = ?
UpdateFlag(r, b) ==
  [i \in DOMAIN reviews |-> IF i = r THEN [reviews[i] EXCEPT !.is_flagged = b] ELSE reviews[i]]

\* The flag route without the isAdmin middleware
SetFlagWithoutIsAdmin(c, u, r, b) ==
  /\ Idle(c)
  /\ reviews' = UpdateFlag(r, b)
  /\ req' = [req EXCEPT ![c] = Response("flag", 200, "-", 0, 0)]
  /\ UNCHANGED <<reactions, nextReviewId, lastReact, users, nextUserId, now>>

\* isAdmin middleware, then the UPDATE and the success response
SetFlag(c, u, r, b) ==
  /\ Idle(c)
  /\ IF Role(u) # "admin"
       THEN /\ req' = [req EXCEPT ![c] = Response("flag", 403, "-", 0, 0)]
            /\ UNCHANGED reviews
       ELSE /\ reviews' = UpdateFlag(r, b)
            /\ req' = [req EXCEPT ![c] = Response("flag", 200, "-", 0, 0)]
  /\ UNCHANGED <<reactions, nextReviewId, lastReact, users, nextUserId, now>>

----------------------------------------------------------------------------
\* GET /api/reviews and GET /api/admin/reviews

DefaultLimit == 6

AdminDefaultLimit == 10

\* parseInt(x) || d: an absent, non-numeric or zero parameter (0 here) takes the default
OrDefault(n, d) == IF n = 0 THEN d ELSE n

\* Math.ceil(total / limit)
CeilDiv(a, b) == (a + b - 1) \div b

\* Text of the comments and search terms in use, as sequences of characters
Chars(str) ==
  CASE str = "" -> << >>
    [] str = "Great!" -> <<"G", "r", "e", "a", "t", "!">>
    [] str = "great" -> <<"g", "r", "e", "a", "t">>
    [] str = "EAT" -> <<"E", "A", "T">>
    [] str = "100%" -> <<"1", "0", "0", "%">>
    [] str = "so_so" -> <<"s", "o", "_", "s", "o">>
    [] str = "%" -> <<"%">>
    [] str = "_" -> <<"_">>
    [] str = "t!" -> <<"t", "!">>
    [] str = "bad" -> <<"b", "a", "d">>

\* The case-insensitive default collation compares letters regardless of case
Fold(ch) ==
  CASE ch = "G" -> "g"
    [] ch = "E" -> "e"
    [] ch = "A" -> "a"
    [] ch = "T" -> "t"
    [] OTHER -> ch

\* text LIKE pattern: % matches any run of characters, _ any one character
RECURSIVE LikeMatch(_, _)
LikeMatch(pattern, text) ==
  IF pattern = << >> THEN text = << >>
  ELSE IF Head(pattern) = "%"
    THEN LikeMatch(Tail(pattern), text)
         \/ (text # << >> /\ LikeMatch(pattern, Tail(text)))
  ELSE /\ text # << >>
       /\ (Head(pattern) = "_" \/ Fold(Head(pattern)) = Fold(Head(text)))
       /\ LikeMatch(Tail(pattern), Tail(text))

\* WHERE r.user_id = ? when a userId is given (0: not given)
MatchingUser(userId) ==
  {i \in DOMAIN reviews : userId = 0 \/ reviews[i].user_id = userId}

\* WHERE comment LIKE `%${search}%`
MatchingSearch(term) ==
  {i \in DOMAIN reviews :
     LikeMatch(<<"%">> \o Chars(term) \o <<"%">>, Chars(reviews[i].comment))}

\* ORDER BY r.created_at DESC: every order of the rows that is descending in created_at;
\* rows of the same second come in an order the server chooses per query
Orderings(ids) ==
  {ord \in [1..Cardinality(ids) -> ids] :
     /\ \A i, j \in DOMAIN ord : i # j => ord[i] # ord[j]
     /\ \A i, j \in DOMAIN ord :
          i < j => reviews[ord[i]].created_at >= reviews[ord[j]].created_at}

\* A window whose offset is page * limit: the first page skips the first rows
PageWindowFromPageZero(ord, page, limit) ==
  LET offset == page * limit
      last == IF offset + limit < Len(ord) THEN offset + limit ELSE Len(ord)
  IN [k \in 1..(IF last > offset THEN last - offset ELSE 0) |-> ord[offset + k]]

\* LIMIT limit OFFSET offset, with offset = (page - 1) * limit
PageWindow(ord, page, limit) ==
  LET offset == (page - 1) * limit
      last == IF offset + limit < Len(ord) THEN offset + limit ELSE Len(ord)
  IN [k \in 1..(IF last > offset THEN last - offset ELSE 0) |-> ord[offset + k]]

\* One row of the public list, with its two counting subqueries
ListRow(i) ==
  [id |-> i, likes |-> CountReactions(i, "like"), dislikes |-> CountReactions(i, "dislike")]

\* One row of the admin list: r.* carries the likes and dislikes columns of reviews
AdminRow(i) == [id |-> i, likes |-> 0, dislikes |-> 0]

\* res.json({reviews, pagination: {page, limit, total, totalPages}})
ListResponse(op, userId, term, page, limit, total, items) ==
  [NoRequest EXCEPT !.op = op, !.status = 200, !.user = userId, !.arg = term,
                    !.page = page, !.limit = limit, !.total = total,
                    !.totalPages = CeilDiv(total, limit), !.items = items]

\* GET /api/reviews: the parameters are read and the count query runs
ListStart(c, page, limit, userId) ==
  /\ Idle(c)
  /\ req' = [req EXCEPT ![c] =
                    [NoRequest EXCEPT !.op = "list", !.pc = "select", !.user = userId,
                                      !.page = OrDefault(page, 1),
                                      !.limit = OrDefault(limit, DefaultLimit),
                                      !.total = Cardinality(MatchingUser(userId))]]
  /\ StoreUnchanged

\* SELECT r.*, u.name, (likes), (dislikes) ... ORDER BY r.created_at DESC LIMIT ? OFFSET ?
ListSelect(c) ==
  /\ At(c, "list", "select")
  /\ \E ord \in Orderings(MatchingUser(req[c].user)) :
       LET ids == PageWindow(ord, req[c].page, req[c].limit)
       IN req' = [req EXCEPT ![c] =
                         ListResponse("list", req[c].user, "-", req[c].page, req[c].limit,
                                      req[c].total,
                                      [k \in DOMAIN ids |-> ListRow(ids[k])])]
  /\ StoreUnchanged

\* GET /api/admin/reviews: isAdmin, then the parameters are read and the count query runs
SearchStart(c, u, page, limit, term) ==
  /\ Idle(c)
  /\ IF Role(u) # "admin"
       THEN req' = [req EXCEPT ![c] = Response("search", 403, "-", 0, 0)]
       ELSE req' = [req EXCEPT ![c] =
                         [NoRequest EXCEPT !.op = "search", !.pc = "select", !.user = u,
                                           !.arg = term,
                                           !.page = OrDefault(page, 1),
                                           !.limit = OrDefault(limit, AdminDefaultLimit),
                                           !.total = Cardinality(MatchingSearch(term))]]
  /\ StoreUnchanged

\* SELECT r.*, u.name, u.email ... WHERE r.comment LIKE ? ORDER BY r.created_at DESC
\* LIMIT ? OFFSET ?
SearchSelect(c) ==
  /\ At(c, "search", "select")
  /\ \E ord \in Orderings(MatchingSearch(req[c].arg)) :
       LET ids == PageWindow(ord, req[c].page, req[c].limit)
       IN req' = [req EXCEPT ![c] =
                         ListResponse("search", req[c].user, req[c].arg, req[c].page,
                                      req[c].limit, req[c].total,
                                      [k \in DOMAIN ids |-> AdminRow(ids[k])])]
  /\ StoreUnchanged

----------------------------------------------------------------------------
\* POST /api/auth/register

\* At most MaxRegistrations users are ever registered.
MaxRegistrations == 2

EmailTaken(email) == \E i \in DOMAIN users : users[i].email = email

InFlightRegisters ==
  Cardinality({c \in Clients : req[c].op = "register" /\ req[c].pc = "insert"})

\* SELECT * FROM users WHERE email = ?; 400 when a row is found
RegisterStart(c, email) ==
  /\ Idle(c)
  /\ IF EmailTaken(email)
       THEN req' = [req EXCEPT ![c] =
                         Response("register", 400, "Email already registered", 0, 0)]
       ELSE /\ Cardinality(DOMAIN users) + InFlightRegisters
                 < Cardinality(Users) + MaxRegistrations
            /\ req' = [req EXCEPT ![c] =
                              [NoRequest EXCEPT !.op = "register", !.pc = "insert",
                                                !.arg = email]]
  /\ StoreUnchanged

\* INSERT INTO users (name, email, password, role) with role 'user'
InsertUser(email) ==
  [i \in DOMAIN users \cup {nextUserId} |->
     IF i = nextUserId THEN [email |-> email, role |-> "user"] ELSE users[i]]

\* bcrypt.hash, then the INSERT; email is UNIQUE, and a failed INSERT is answered by the
\* catch block
RegisterInsert(c) ==
  /\ At(c, "register", "insert")
  /\ IF EmailTaken(req[c].arg)
       THEN /\ req' = [req EXCEPT ![c] = Response("register", 500, "ER_DUP_ENTRY", 0, 0)]
            /\ UNCHANGED <<users, nextUserId>>
       ELSE /\ users' = InsertUser(req[c].arg)
            /\ nextUserId' = nextUserId + 1
            /\ req' = [req EXCEPT ![c] = Response("register", 201, "-", 0, 0)]
  /\ UNCHANGED <<reviews, reactions, nextReviewId, lastReact, now>>

----------------------------------------------------------------------------
\* Request inputs

RequestTypes == ReactionTypes \cup {"love"}

Ratings == {0, 5}

Comments == {"", "Great!"}

Scores == {5}

\* Reaction engine: reviews written by user 2, reactions by users 2 and 3, deletion by
\* the admin, the author and a stranger.
Next ==
  \/ \E c \in Clients, u \in {2, 3}, r \in ReviewIds, t \in RequestTypes : ReactStart(c, u, r, t)
  \/ \E c \in Clients : ReactSelect(c)
  \/ \E c \in Clients : ReactWrite(c)
  \/ \E c \in Clients : ReactCountLikes(c)
  \/ \E c \in Clients : ReactCountDislikes(c)
  \/ \E c \in Clients, u \in Users, r \in ReviewIds : DeleteStart(c, u, r)
  \/ \E c \in Clients : DeleteReactions(c)
  \/ \E c \in Clients : DeleteReview(c)
  \/ \E c \in Clients : CreateStart(c, 2, 5, "Great!")
  \/ \E c \in Clients, score \in Scores : CreateInsert(c, score)
  \/ \E c \in Clients : CreateSelect(c)

Spec == Init /\ [][Next]_vars

----------------------------------------------------------------------------
\* Moderation: reviews by every user with every input and sentiment, flagging and
\* deletion by every user; no reactions.
ModScores == {1, 5, 9}

ModNext ==
  \/ \E c \in Clients, u \in Users, rating \in Ratings, comment \in Comments :
        CreateStart(c, u, rating, comment)
  \/ \E c \in Clients, score \in ModScores : CreateInsert(c, score)
  \/ \E c \in Clients : CreateSelect(c)
  \/ \E c \in Clients, u \in Users, r \in ReviewIds, b \in BOOLEAN : SetFlag(c, u, r, b)
  \/ \E c \in Clients, u \in Users, r \in ReviewIds : DeleteStart(c, u, r)
  \/ \E c \in Clients : DeleteReactions(c)
  \/ \E c \in Clients : DeleteReview(c)

ModSpec == Init /\ [][ModNext]_vars

----------------------------------------------------------------------------
\* Authorization of deletion: reviews by every user, likes and dislikes by user 3,
\* deletion by every user.
AuthNext ==
  \/ \E c \in Clients, u \in Users : CreateStart(c, u, 5, "Great!")
  \/ \E c \in Clients, score \in Scores : CreateInsert(c, score)
  \/ \E c \in Clients : CreateSelect(c)
  \/ \E c \in Clients, r \in ReviewIds, t \in ReactionTypes : ReactStart(c, 3, r, t)
  \/ \E c \in Clients : ReactSelect(c)
  \/ \E c \in Clients : ReactWrite(c)
  \/ \E c \in Clients : ReactCountLikes(c)
  \/ \E c \in Clients : ReactCountDislikes(c)
  \/ \E c \in Clients, u \in Users, r \in ReviewIds : DeleteStart(c, u, r)
  \/ \E c \in Clients : DeleteReactions(c)
  \/ \E c \in Clients : DeleteReview(c)

AuthSpec == Init /\ [][AuthNext]_vars

----------------------------------------------------------------------------
\* Properties

\* The number of review_reactions rows of the pair (r, u).
NumReactionRows(r, u) == Copies(reactions, ReactionRows(r, u))

\* A DELETE /api/reviews/r request has run its first DELETE and not yet its second.
DeleteUnderWay(r) ==
  \E c \in Clients : At(c, "delete", "del_review") /\ req[c].reviewId = r

\* Review r was created and its row is gone.
Deleted(r) == r < nextReviewId /\ r \notin DOMAIN reviews

\* The users that ever stored a reaction to review r.
EverReacted(r) == {x.user_id : x \in {y \in lastReact : y.review_id = r}}

\* C1: while the review exists and no deletion of it is under way, a user whose react
\* calls on it succeeded has exactly one reaction row for it, and the row's type is the
\* type of the latest of those calls.
C1_OneReactionWithLatestType ==
  \A x \in lastReact :
    (x.review_id \in DOMAIN reviews /\ ~DeleteUnderWay(x.review_id))
      => /\ ReactionRows(x.review_id, x.user_id) = {x}
         /\ NumReactionRows(x.review_id, x.user_id) = 1

\* C1 witness: a react call has just overwritten the user's earlier reaction in place.
C1_Witness ==
  \E c \in Clients :
    /\ At(c, "react", "count_likes") /\ req[c].found
    /\ req[c].arg = "dislike"
    /\ req[c].reviewId \in DOMAIN reviews /\ ~DeleteUnderWay(req[c].reviewId)
    /\ NumReactionRows(req[c].reviewId, req[c].user) = 1
    /\ \E x \in lastReact : x.review_id = req[c].reviewId /\ x.user_id # req[c].user

\* C2: a react request's write on an existing review never ends in a store failure,
\* and leaves exactly one row for the pair.
C2_ConcurrentReactsBothSucceed ==
  [][\A c \in Clients :
       (At(c, "react", "write") /\ req'[c] # req[c]
          /\ req[c].reviewId \in DOMAIN reviews /\ ~DeleteUnderWay(req[c].reviewId))
         => /\ req'[c].status # 500
            /\ NumReactionRows(req[c].reviewId, req[c].user)' = 1]_vars

\* C3: every store-changing step of a deleteReview request removes the review together
\* with all its reactions.
C3_DeleteIsAtomic ==
  [][\A c \in Clients :
       (req[c].op = "delete" /\ req'[c] # req[c] /\ ~Idle(c))
         => \/ reviews' = reviews /\ reactions' = reactions
            \/ /\ req[c].reviewId \notin DOMAIN reviews'
               /\ ReactionsOf(req[c].reviewId)' = {}]_vars

\* C4: every reaction row refers to a review that exists.
C4_NoOrphanReaction ==
  \A x \in DOMAIN reactions : x.review_id \in DOMAIN reviews

\* C4 witness: a react request passed its review-exists check, the review was deleted,
\* and the request's INSERT came afterwards.
C4_Witness ==
  \E c \in Clients :
    /\ req[c].op = "react" /\ Idle(c)
    /\ req[c].error = "ER_NO_REFERENCED_ROW"
    /\ Deleted(1)

\* C5: a deleteReview request on an existing review goes on to delete exactly when its
\* principal is an admin or the review's author, and is otherwise answered 403 with the
\* store untouched; a review row disappears only in the last step of such a request.
C5_DeleteOnlyByAuthorOrAdmin ==
  [][/\ \A c \in Clients, u \in Users, r \in ReviewIds :
          (DeleteStart(c, u, r) /\ r \in DOMAIN reviews)
            => IF Role(u) = "admin" \/ reviews[r].user_id = u
                 THEN At(c, "delete", "del_reactions")' /\ req'[c].reviewId = r
                 ELSE /\ Idle(c)' /\ req'[c].status = 403
                      /\ reviews' = reviews /\ reactions' = reactions
     /\ \A r \in DOMAIN reviews :
          r \notin DOMAIN reviews'
            => \E c \in Clients :
                 /\ At(c, "delete", "del_review") /\ req[c].reviewId = r
                 /\ Role(req[c].user) = "admin" \/ reviews[r].user_id = req[c].user
                 /\ Idle(c)' /\ req'[c].status = 200
     /\ \A c \in Clients :
          (At(c, "delete", "del_review") /\ req'[c] # req[c])
            => req[c].reviewId \notin DOMAIN reviews' /\ req'[c].status = 200]_vars

\* C5 witness: a principal that is neither admin nor author was answered 403, and the
\* review and its reactions are still there.
C5_Witness ==
  \E c \in Clients :
    /\ req[c].op = "delete" /\ Idle(c) /\ req[c].status = 403
    /\ 1 \in DOMAIN reviews /\ ReactionsOf(1) # {}
    /\ \A d \in Clients : Idle(d)

\* C6: the counts a react request returns add up to no more than the number of users
\* that ever reacted to the review, whatever other users' react requests do meanwhile
\* (the request's own reaction is still the user's latest when it answers).
C6_CountsBoundedByReactors ==
  [][\A c \in Clients :
       (/\ At(c, "react", "count_dislikes") /\ Idle(c)'
        /\ [review_id |-> req[c].reviewId, user_id |-> req[c].user,
            reaction_type |-> req[c].arg] \in lastReact)
         => req'[c].likes + req'[c].dislikes
              <= Cardinality(EverReacted(req[c].reviewId))]_vars

\* C9: a deleteReview request on an id that has no review row is answered 404 and
\* changes no row.
C9_DeleteMissingIsNotFound ==
  [][\A c \in Clients, u \in Users, r \in ReviewIds :
       (DeleteStart(c, u, r) /\ r \notin DOMAIN reviews)
         => /\ Idle(c)' /\ req'[c].status = 404
            /\ reviews' = reviews /\ reactions' = reactions]_vars

\* C9 witness: a review was deleted, and a later deleteReview of it was answered 404.
C9_Witness ==
  /\ Deleted(1)
  /\ \E c \in Clients : req[c].op = "delete" /\ Idle(c) /\ req[c].status = 404
  /\ \E c \in Clients : req[c].op = "delete" /\ Idle(c) /\ req[c].status = 200

\* C10: once a review is deleted it stays deleted, a react request on it that starts
\* afterwards is answered 404, and no reaction row for it exists.
C10_ReactAfterDeleteIsNotFound ==
  [][\A r \in ReviewIds :
       Deleted(r)
         => /\ Deleted(r)'
            /\ ReactionsOf(r)' = {}
            /\ \A c \in Clients, u \in Users, t \in ReactionTypes :
                 ReactStart(c, u, r, t) => Idle(c)' /\ req'[c].status = 404]_vars

\* C10 witness: the review is deleted and a react request on it was answered 404.
C10_Witness ==
  /\ Deleted(1)
  /\ \E c \in Clients : req[c].op = "delete" /\ Idle(c) /\ req[c].status = 200
  /\ \E c \in Clients : req[c].op = "react" /\ Idle(c) /\ req[c].status = 404

\* C7: a setFlag by an admin on an id without a review row is answered 404 and
\* changes no row.
C7_FlagMissingIsNotFound ==
  [][\A c \in Clients, u \in Users, r \in ReviewIds, b \in BOOLEAN :
       (SetFlag(c, u, r, b) /\ Role(u) = "admin" /\ r \notin DOMAIN reviews)
         => req'[c].status = 404 /\ reviews' = reviews]_vars

\* C8: a createReview whose rating is outside 1..5 or whose comment is empty is
\* answered 400 and inserts nothing; with valid input it inserts exactly one review
\* with the given author, rating and comment.
C8_CreateValidatesInput ==
  [][\A c \in Clients :
       (At(c, "create", "insert") /\ req'[c] # req[c])
         => IF req[c].rating \in 1..5 /\ req[c].comment # ""
              THEN /\ DOMAIN reviews' = DOMAIN reviews \cup {nextReviewId}
                   /\ nextReviewId \notin DOMAIN reviews
                   /\ reviews'[nextReviewId].user_id = req[c].user
                   /\ reviews'[nextReviewId].rating = req[c].rating
                   /\ reviews'[nextReviewId].comment = req[c].comment
                   /\ \A i \in DOMAIN reviews : reviews'[i] = reviews[i]
              ELSE /\ Idle(c)' /\ req'[c].status = 400
                   /\ reviews' = reviews]_vars

----------------------------------------------------------------------------
\* Flagging next to every other operation: a review by user 2, flagging by the admin and
\* by user 3, likes by user 3, deletion by the admin, the public list and the admin
\* search with their defaults.
FlagNext ==
  \/ \E c \in Clients : CreateStart(c, 2, 5, "Great!")
  \/ \E c \in Clients, score \in Scores : CreateInsert(c, score)
  \/ \E c \in Clients : CreateSelect(c)
  \/ \E c \in Clients, u \in {AdminId, 3}, r \in ReviewIds, b \in BOOLEAN :
        SetFlag(c, u, r, b)
  \/ \E c \in Clients, r \in ReviewIds : ReactStart(c, 3, r, "like")
  \/ \E c \in Clients : ReactSelect(c)
  \/ \E c \in Clients : ReactWrite(c)
  \/ \E c \in Clients : ReactCountLikes(c)
  \/ \E c \in Clients : ReactCountDislikes(c)
  \/ \E c \in Clients, r \in ReviewIds : DeleteStart(c, AdminId, r)
  \/ \E c \in Clients : DeleteReactions(c)
  \/ \E c \in Clients : DeleteReview(c)
  \/ \E c \in Clients : ListStart(c, 0, 0, 0)
  \/ \E c \in Clients : ListSelect(c)
  \/ \E c \in Clients : SearchStart(c, AdminId, 0, 0, "")
  \/ \E c \in Clients : SearchSelect(c)

FlagSpec == Init /\ [][FlagNext]_vars

\* C11: a review is created with is_flagged false; the flag of a review that stays in
\* the store changes only in a flag request of an admin, so no create, react, list,
\* search or delete step changes it; a flag request of a non-admin is answered 403 and
\* leaves every review as it was.
C11_FlagChangesOnlyByAdminSetFlag ==
  [][/\ \A r \in DOMAIN reviews' \ DOMAIN reviews : reviews'[r].is_flagged = FALSE
     /\ \A r \in DOMAIN reviews \cap DOMAIN reviews' :
          reviews'[r].is_flagged # reviews[r].is_flagged =>
            \E c \in Clients, u \in Users, b \in BOOLEAN :
               Role(u) = "admin" /\ SetFlag(c, u, r, b)
     /\ \A c \in Clients, u \in Users, r \in ReviewIds, b \in BOOLEAN :
          (Role(u) # "admin" /\ SetFlag(c, u, r, b)) =>
            (req'[c].status = 403 /\ reviews' = reviews)]_vars

\* A flagged review is in the store, a non-admin's flag request has been refused and a
\* reaction has been answered.
C11_Witness ==
  /\ \E r \in DOMAIN reviews : reviews[r].is_flagged
  /\ \E c, d \in Clients :
       /\ req[c].op = "flag" /\ req[c].status = 403
       /\ req[d].op = "react" /\ req[d].status = 200

\* C12: a flag request of an admin for an existing review succeeds whatever the current
\* value and leaves is_flagged equal to the requested value, the rest of the store
\* untouched; applied where the flag already has that value it succeeds and leaves the
\* store as it is.
C12_SetFlagIdempotent ==
  [][\A c \in Clients, u \in Users, r \in ReviewIds, b \in BOOLEAN :
       (Role(u) = "admin" /\ r \in DOMAIN reviews /\ SetFlag(c, u, r, b)) =>
         /\ req'[c].status = 200
         /\ DOMAIN reviews' = DOMAIN reviews
         /\ reviews'[r] = [reviews[r] EXCEPT !.is_flagged = b]
         /\ \A i \in DOMAIN reviews \ {r} : reviews'[i] = reviews[i]
         /\ reviews[r].is_flagged = b => reviews' = reviews
         /\ UNCHANGED <<reactions, nextReviewId, users>>]_vars

\* Both clients hold the success of a flag request and the review is flagged.
C12_Witness ==
  /\ \A c \in Clients : req[c].op = "flag" /\ req[c].status = 200
  /\ \E r \in DOMAIN reviews : reviews[r].is_flagged

----------------------------------------------------------------------------
\* Listing over a store that does not change: up to MaxListed reviews written by users
\* 2 and 3 in two consecutive seconds, read page by page by one client (reads of an
\* unchanging store do not affect each other).
MaxListed == 3

Seconds == {0, 1}

ListedRows ==
  [user_id : {2, 3}, rating : {5}, comment : {"Great!"}, sentiment_score : {5},
   sentiment_label : {SentimentLabel(5)}, is_flagged : {FALSE}, created_at : Seconds]

\* The reviews tables that the inserts of n <= MaxListed reviews leave: ids follow the
\* AUTO_INCREMENT counter, so a later id never has an earlier created_at
ListedStores ==
  UNION {{s \in [1..n -> ListedRows] :
            \A i, j \in 1..n : i < j => s[i].created_at <= s[j].created_at} :
         n \in 0..MaxListed}

PageInit ==
  /\ reviews \in ListedStores
  /\ reactions = << >>
  /\ nextReviewId = Cardinality(DOMAIN reviews) + 1
  /\ req = [c \in Clients |-> NoRequest]
  /\ lastReact = {}
  /\ users = SeedUsers
  /\ nextUserId = Cardinality(Users) + 1
  /\ now = 1

Pages == 0..3

Limits == 0..2

Reader == "c1"

PageNext ==
  \/ \E page \in Pages, limit \in Limits, userId \in {0, 2} :
        ListStart(Reader, page, limit, userId)
  \/ ListSelect(Reader)

PageSpec == PageInit /\ [][PageNext]_vars

\* Sum of the sizes of the windows of pages 1..page over an ordering
RECURSIVE SumOfPageSizes(_, _, _)
SumOfPageSizes(ord, limit, page) ==
  IF page = 0 THEN 0
  ELSE Len(PageWindow(ord, page, limit)) + SumOfPageSizes(ord, limit, page - 1)

\* C13: on an unchanging store with T matching reviews and a limit L >= 1, every page
\* reports total = T and totalPages = ceil(T / L), a page beyond totalPages is an empty
\* list with the same total and totalPages, and the sizes of pages 1..totalPages sum
\* to T.
C13_PaginationIsConsistent ==
  /\ \A c \in Clients :
       (req[c].op = "list" /\ Idle(c)) =>
         LET T == Cardinality(MatchingUser(req[c].user))
             L == req[c].limit
             page == req[c].page
             expected == IF page * L <= T THEN L
                         ELSE IF (page - 1) * L < T THEN T - (page - 1) * L
                         ELSE 0
         IN /\ req[c].status = 200
            /\ L >= 1
            /\ req[c].total = T
            /\ req[c].totalPages * L >= T
            /\ (req[c].totalPages - 1) * L < T \/ (T = 0 /\ req[c].totalPages = 0)
            /\ Len(req[c].items) = expected
            /\ page > req[c].totalPages => req[c].items = << >>
  /\ \A userId \in {0, 2, 3}, limit \in Limits :
       LET T == Cardinality(MatchingUser(userId))
           L == OrDefault(limit, DefaultLimit)
       IN \A ord \in Orderings(MatchingUser(userId)) :
            SumOfPageSizes(ord, L, CeilDiv(T, L)) = T

\* Three reviews are listed two per page and the page beyond the last one was asked
\* for: it is empty and reports three reviews on two pages.
C13_Witness ==
  \E c \in Clients :
     /\ req[c].op = "list" /\ Idle(c) /\ req[c].limit = 2 /\ req[c].total = 3
     /\ req[c].page = 3 /\ req[c].totalPages = 2 /\ req[c].items = << >>

\* C14: a page lists its reviews in descending created_at with ties broken by id
\* descending, and holds exactly the reviews whose place in that order falls in the
\* page's window, so that pages 1..totalPages hold every matching review exactly once
\* even when reviews share a created_at.
C14_TiesBrokenByIdDescending ==
  \A c \in Clients :
     (req[c].op = "list" /\ Idle(c) /\ req[c].status = 200) =>
       LET items == req[c].items
           first == (req[c].page - 1) * req[c].limit
           matching == MatchingUser(req[c].user)
           rank(i) == Cardinality({j \in matching :
                         \/ reviews[j].created_at > reviews[i].created_at
                         \/ (reviews[j].created_at = reviews[i].created_at /\ j > i)})
       IN /\ \A k \in 1..(Len(items) - 1) :
               LET a == items[k].id
                   b == items[k + 1].id
               IN \/ reviews[a].created_at > reviews[b].created_at
                  \/ (reviews[a].created_at = reviews[b].created_at /\ a > b)
          /\ {items[k].id : k \in DOMAIN items} =
               {i \in matching : rank(i) >= first /\ rank(i) < first + req[c].limit}

----------------------------------------------------------------------------
\* Registration: two clients register with a seeded email and with three new ones.
Emails == {"john@example.com", "new@example.com", "other@example.com", "third@example.com"}

RegNext ==
  \/ \E c \in Clients, email \in Emails : RegisterStart(c, email)
  \/ \E c \in Clients : RegisterInsert(c)

RegSpec == Init /\ [][RegNext]_vars

\* C15: no two users share an email, and a registration whose email is held by a user
\* row when it looks it up or when it inserts, a second of two concurrent registrations
\* with the same new email included, is answered as a duplicate email (the handler's
\* 'Email already registered' answer or 409), never 500, and inserts no row.
C15_DuplicateEmailIsConflict ==
  [][/\ \A i, j \in DOMAIN users' : i # j => users'[i].email # users'[j].email
     /\ \A c \in Clients, email \in Emails :
          (/\ EmailTaken(email)
           /\ \/ RegisterStart(c, email)
              \/ (req[c].arg = email /\ RegisterInsert(c)))
            => /\ req'[c].pc = "done"
               /\ req'[c].status \in {400, 409}
               /\ users' = users]_vars

----------------------------------------------------------------------------
\* Admin search over a store that does not change: up to MaxListed reviews of user 2
\* with comments that hold letters of both cases, a percent sign and an underscore.
SearchedRows ==
  [user_id : {2}, rating : {5}, comment : {"Great!", "100%", "so_so", "bad"},
   sentiment_score : {5}, sentiment_label : {SentimentLabel(5)}, is_flagged : {FALSE},
   created_at : {0}]

SearchedStores == UNION {[1..n -> SearchedRows] : n \in 0..MaxListed}

SearchInit ==
  /\ reviews \in SearchedStores
  /\ reactions = << >>
  /\ nextReviewId = Cardinality(DOMAIN reviews) + 1
  /\ req = [c \in Clients |-> NoRequest]
  /\ lastReact = {}
  /\ users = SeedUsers
  /\ nextUserId = Cardinality(Users) + 1
  /\ now = 0

Terms == {"", "great", "EAT", "t!", "bad", "%", "_"}

SearchNext ==
  \/ \E u \in {AdminId, 3}, limit \in {0, 1}, term \in Terms :
        SearchStart(Reader, u, 0, limit, term)
  \/ SearchSelect(Reader)

SearchSpec == SearchInit /\ [][SearchNext]_vars

\* C16: a search answers with the reviews whose comment contains the term as a literal
\* substring regardless of case, for every term, those with % or _ included: total is
\* their number, every listed review is one of them, and a first page that is not cut
\* by the limit lists all of them; the empty term finds every review.
C16_SearchIsLiteralSubstring ==
  \A c \in Clients :
     (req[c].op = "search" /\ Idle(c) /\ req[c].status = 200) =>
       LET term == Chars(req[c].arg)
           contains(text) ==
             \E k \in 0..(Len(text) - Len(term)) :
                \A j \in 1..Len(term) : Fold(text[k + j]) = Fold(term[j])
           literal == {i \in DOMAIN reviews : contains(Chars(reviews[i].comment))}
           listed == {req[c].items[k].id : k \in DOMAIN req[c].items}
       IN /\ req[c].total = Cardinality(literal)
          /\ listed \subseteq literal
          /\ (req[c].page = 1 /\ req[c].limit >= req[c].total) => listed = literal
          /\ req[c].arg = "" => literal = DOMAIN reviews

----------------------------------------------------------------------------
\* The reaction engine when no request touches the reactions of a review while a react
\* request on that review is being handled: a step that leaves such a request where it
\* is leaves the review's reaction rows as they are.
Undisturbed ==
  \A d \in Clients :
     (req[d].op = "react" /\ ~Idle(d) /\ req'[d] = req[d]) =>
       /\ ReactionsOf(req[d].reviewId)' = ReactionsOf(req[d].reviewId)
       /\ \A x \in ReactionsOf(req[d].reviewId) : reactions'[x] = reactions[x]

QuietNext == Next /\ Undisturbed

QuietSpec == Init /\ [][QuietNext]_vars

\* C17: with no other request touching the review's reactions during the call, the
\* counts a successful react returns are the numbers of like and dislike rows of the
\* review in the store as the call leaves it, the caller's own row among them.
C17_CountsReadAfterOwnWrite ==
  [][\A c \in Clients :
       (At(c, "react", "count_dislikes") /\ req'[c] # req[c]) =>
         LET r == req[c].reviewId
             own == [review_id |-> r, user_id |-> req[c].user,
                     reaction_type |-> req[c].arg]
             rowsOf(t) == {x \in DOMAIN reactions' : x.review_id = r /\ x.reaction_type = t}
         IN /\ req'[c].status = 200
            /\ req'[c].likes = Copies(reactions', rowsOf("like"))
            /\ req'[c].dislikes = Copies(reactions', rowsOf("dislike"))
            /\ own \in DOMAIN reactions'
            /\ IF req[c].arg = "like" THEN req'[c].likes >= 1
                                      ELSE req'[c].dislikes >= 1]_vars

\* A react request has answered one like and one dislike: the caller's and another
\* user's.
C17_Witness ==
  \E c \in Clients :
     /\ req[c].op = "react" /\ Idle(c) /\ req[c].status = 200
     /\ req[c].likes = 1 /\ req[c].dislikes = 1

----------------------------------------------------------------------------
\* Review creation with a classifier that answers any score or fails: reviews by users
\* 2 and 3 with a valid and an invalid rating, next to flagging and deletion by the
\* admin and likes by user 3.
CreateNext ==
  \/ \E c \in Clients, u \in {2, 3}, rating \in Ratings : CreateStart(c, u, rating, "Great!")
  \/ \E c \in Clients, score \in ModScores : CreateInsert(c, score)
  \/ \E c \in Clients : CreateClassifierRejects(c)
  \/ \E c \in Clients : CreateSelect(c)
  \/ \E c \in Clients, r \in ReviewIds, b \in BOOLEAN : SetFlag(c, AdminId, r, b)
  \/ \E c \in Clients, r \in ReviewIds : ReactStart(c, 3, r, "like")
  \/ \E c \in Clients : ReactSelect(c)
  \/ \E c \in Clients : ReactWrite(c)
  \/ \E c \in Clients : ReactCountLikes(c)
  \/ \E c \in Clients : ReactCountDislikes(c)
  \/ \E c \in Clients, r \in ReviewIds : DeleteStart(c, AdminId, r)
  \/ \E c \in Clients : DeleteReactions(c)
  \/ \E c \in Clients : DeleteReview(c)

CreateSpec == Init /\ [][CreateNext]_vars

\* C18: every review row carries a sentiment score and label.  A row enters the store
\* only in the INSERT of a create request that awaited the classifier, with the score
\* of that one answer and the label that goes with it, and keeps both afterwards; a
\* create request whose classifier call fails is answered 500 and inserts no row.
C18_ReviewsCarrySentiment ==
  [][/\ \A r \in DOMAIN reviews' \ DOMAIN reviews :
          \E c \in Clients, score \in ModScores :
             /\ At(c, "create", "insert")
             /\ CreateInsert(c, score)
             /\ reviews'[r].sentiment_score = score
             /\ reviews'[r].sentiment_label =
                  (IF score > 7 THEN "positive" ELSE IF score < 3 THEN "negative"
                   ELSE "neutral")
             /\ Cardinality(DOMAIN reviews' \ DOMAIN reviews) = 1
     /\ \A r \in DOMAIN reviews \cap DOMAIN reviews' :
          /\ reviews'[r].sentiment_score = reviews[r].sentiment_score
          /\ reviews'[r].sentiment_label = reviews[r].sentiment_label
     /\ \A c \in Clients :
          CreateClassifierRejects(c) =>
            /\ req'[c].pc = "done" /\ req'[c].status = 500
            /\ reviews' = reviews /\ nextReviewId' = nextReviewId]_vars

\* A review with a positive sentiment is stored and flagged, and a create request whose
\* classifier call failed has been answered 500.
C18_Witness ==
  /\ \E r \in DOMAIN reviews :
       /\ reviews[r].sentiment_label = "positive" /\ reviews[r].sentiment_score = 9
       /\ reviews[r].is_flagged
  /\ \E c \in Clients :
       req[c].op = "create" /\ req[c].status = 500 /\ req[c].error = "Server error"

----------------------------------------------------------------------------
\* C19: of the delete requests that authorized principals send for one review,
\* concurrent ones included, one is answered 200 and every other 404: a request that
\* passed the authorization check answers 200 only if its own DELETE removes the review
\* row, and 404 if the row is already gone.
C19_OneDeleteSucceeds ==
  [][\A c \in Clients :
       (At(c, "delete", "del_review") /\ req'[c] # req[c]) =>
         /\ req'[c].pc = "done"
         /\ req'[c].status = IF req[c].reviewId \in DOMAIN reviews THEN 200 ELSE 404]_vars

----------------------------------------------------------------------------
\* Reactions over two reviews: review 1 by user 2 and review 2 by user 3 are stored with
\* any reactions of users 2 and 3 that the unique key allows; both users react to both
\* reviews and to a missing one, with valid and invalid types, concurrently.
SeededReviews == {1, 2}

SeededReactionSets ==
  {S \in SUBSET [review_id : SeededReviews, user_id : {2, 3}, reaction_type : ReactionTypes] :
     \A x, y \in S : (x.review_id = y.review_id /\ x.user_id = y.user_id) => x = y}

FrameInit ==
  /\ reviews = [i \in SeededReviews |->
                  [user_id |-> i + 1, rating |-> 5, comment |-> "Great!",
                   sentiment_score |-> 5, sentiment_label |-> SentimentLabel(5),
                   is_flagged |-> FALSE, created_at |-> 0]]
  /\ \E S \in SeededReactionSets : reactions = [x \in S |-> 1] /\ lastReact = S
  /\ nextReviewId = Cardinality(SeededReviews) + 1
  /\ req = [c \in Clients |-> NoRequest]
  /\ users = SeedUsers
  /\ nextUserId = Cardinality(Users) + 1
  /\ now = 0

FrameNext ==
  \/ \E c \in Clients, u \in {2, 3}, r \in 1..nextReviewId, t \in RequestTypes :
        ReactStart(c, u, r, t)
  \/ \E c \in Clients : ReactSelect(c)
  \/ \E c \in Clients : ReactWrite(c)
  \/ \E c \in Clients : ReactCountLikes(c)
  \/ \E c \in Clients : ReactCountDislikes(c)

FrameSpec == FrameInit /\ [][FrameNext]_vars

\* C20: a step of a react request of user u on review r changes no user row and no
\* review row (rating, sentiment and is_flagged included), no reaction row of another
\* user on r and no reaction row on another review; of the rows keyed (r, u) it changes
\* at most one, and a request answered 400 or 404 changes nothing.
C20_ReactChangesOnlyOwnRow ==
  [][\A c \in Clients :
       (req'[c] # req[c] /\ (req[c].op = "react" \/ req'[c].op = "react")) =>
         LET r == IF Idle(c) /\ ~Idle(c)' THEN req'[c].reviewId ELSE req[c].reviewId
             u == IF Idle(c) /\ ~Idle(c)' THEN req'[c].user ELSE req[c].user
             other(x) == ~(x.review_id = r /\ x.user_id = u)
             ownBefore == {x \in DOMAIN reactions : ~other(x)}
             ownAfter == {x \in DOMAIN reactions' : ~other(x)}
         IN /\ users' = users
            /\ reviews' = reviews
            /\ nextReviewId' = nextReviewId
            /\ {x \in DOMAIN reactions' : other(x)} = {x \in DOMAIN reactions : other(x)}
            /\ \A x \in DOMAIN reactions : other(x) => reactions'[x] = reactions[x]
            /\ Copies(reactions', ownAfter) <= Copies(reactions, ownBefore) + 1
            /\ Copies(reactions, ownBefore) = 1 => Copies(reactions', ownAfter) = 1
            /\ (Idle(c)' /\ req'[c].status \in {400, 404}) => reactions' = reactions]_vars

\* User 2 has switched to a like on review 1 beside user 3's dislike on it and user 2's
\* dislike on review 2, and a react request on a missing review was answered 404.
C20_Witness ==
  /\ {[review_id |-> 1, user_id |-> 2, reaction_type |-> "like"],
      [review_id |-> 1, user_id |-> 3, reaction_type |-> "dislike"],
      [review_id |-> 2, user_id |-> 2, reaction_type |-> "dislike"]} \subseteq DOMAIN reactions
  /\ \E c, d \in Clients :
       /\ req[c].op = "react" /\ req[c].status = 200
       /\ req[c].likes = 1 /\ req[c].dislikes = 1
       /\ req[d].op = "react" /\ req[d].status = 404

====
